---- MODULE Spec2Model ----
(***************************************************************************)
(* LiDAR placement solver (backend/services/lidar_solver/solver.py).       *)
(*                                                                         *)
(* Lengths are integers (one unit is a quarter of the smallest sample      *)
(* spacing), so every comparison the code makes on floats is made here on  *)
(* exact integers or exact rationals.  Radii are kept squared, as a pair   *)
(* <<numerator, denominator>>.                                             *)
(***************************************************************************)
EXTENDS Integers, Sequences, FiniteSets, TLC

VARIABLES
    params,            \* the params dict handed to solve_lidar_placement
    pc,                \* position inside solve_lidar_placement
    r_eff,             \* effective radius, squared rational, or None
    points,            \* List[SamplePoint]
    candidates,        \* List[Candidate]
    obstacle_grid,     \* the occupancy grid with its bounds, or NoGrid
    warnings,          \* List[str]
    selected_indices,  \* List[int]
    solver_status,     \* status string of the last solve_k_coverage call
    success,           \* success flag of the last solve_k_coverage call
    solve_calls,       \* settings of every solve_k_coverage call, in order
    ran,               \* components that ran in this invocation
    pruned,            \* what prune_redundant_sensors returned
    refined_yaw,       \* Dict[int, float] of refine_yaw_angles
    result,            \* the dict returned, or None
    run,               \* which invocation of solve this is (1 or 2)
    first_result,      \* result of the first invocation
    solver_tape,       \* what the seeded solver answered in the first invocation
    g_in,              \* inputs of a stand-alone call of a pure function
    g_out              \* its return value

vars == <<params, pc, r_eff, points, candidates, obstacle_grid, warnings,
          selected_indices, solver_status, success, solve_calls, ran, pruned,
          refined_yaw, result, run, first_result, solver_tape, g_in, g_out>>

None == "None"

(***************************************************************************)
(* Bounds of the model.                                                    *)
(***************************************************************************)
MaxSeed == 6560
MaxSlack == 1
MaxK == 2
MaxPoints == 2
MaxCands == 3
MaxLength == 6
MaxAngle == 365
FloatBits == 11

\* generate_candidates: yaw_step = 30.0  # Default step
DefaultYawStep == 30

(***************************************************************************)
(* Small helpers.                                                          *)
(***************************************************************************)
Abs(n) == IF n < 0 THEN -n ELSE n

Min2(a, b) == IF a <= b THEN a ELSE b

Max2(a, b) == IF a >= b THEN a ELSE b

RECURSIVE Pow(_, _)
Pow(b, e) == IF e = 0 THEN 1 ELSE b * Pow(b, e - 1)

SetMin(S) == CHOOSE m \in S : \A o \in S : m <= o

SetMax(S) == CHOOSE m \in S : \A o \in S : m >= o

Range(s) == {s[i] : i \in DOMAIN s}

RECURSIVE Concat(_)
Concat(ss) == IF ss = <<>> THEN <<>> ELSE Head(ss) \o Concat(Tail(ss))

\* all orderings of a finite set, as sequences
RECURSIVE Orderings(_)
Orderings(S) ==
    IF S = {} THEN {<<>>}
    ELSE UNION {{<<e>> \o o : o \in Orderings(S \ {e})} : e \in S}

\* the ascending ordering of a finite set of integers
RECURSIVE Ascending(_)
Ascending(S) ==
    IF S = {} THEN <<>>
    ELSE LET m == SetMin(S) IN <<m>> \o Ascending(S \ {m})

Pt(x, z) == [x |-> x, z |-> z]

(***************************************************************************)
(* shapely geometry, on exact integers.                                    *)
(***************************************************************************)
Cross(a, b, p) == (b.x - a.x) * (p.z - a.z) - (b.z - a.z) * (p.x - a.x)

Sign(n) == IF n > 0 THEN 1 ELSE IF n < 0 THEN -1 ELSE 0

EdgeA(poly, i) == poly[i]

EdgeB(poly, i) == poly[(i % Len(poly)) + 1]

OnSegment(p, a, b) ==
    /\ Cross(a, b, p) = 0
    /\ Min2(a.x, b.x) <= p.x /\ p.x <= Max2(a.x, b.x)
    /\ Min2(a.z, b.z) <= p.z /\ p.z <= Max2(a.z, b.z)

OnBoundary(poly, p) ==
    \E i \in 1..Len(poly) : OnSegment(p, EdgeA(poly, i), EdgeB(poly, i))

\* the edge a-b is crossed by the ray from p towards +x
RayCrosses(p, a, b) ==
    /\ (a.z > p.z) # (b.z > p.z)
    /\ IF b.z > a.z
       THEN (p.x - a.x) * (b.z - a.z) < (b.x - a.x) * (p.z - a.z)
       ELSE (p.x - a.x) * (b.z - a.z) > (b.x - a.x) * (p.z - a.z)

\* Polygon.contains(Point): the point is in the interior
PolyContains(poly, p) ==
    /\ ~OnBoundary(poly, p)
    /\ Cardinality({i \in 1..Len(poly) :
                      RayCrosses(p, EdgeA(poly, i), EdgeB(poly, i))}) % 2 = 1

SegmentsMeet(a, b, c, d) ==
    \/ /\ Sign(Cross(a, b, c)) * Sign(Cross(a, b, d)) < 0
       /\ Sign(Cross(c, d, a)) * Sign(Cross(c, d, b)) < 0
    \/ OnSegment(c, a, b) \/ OnSegment(d, a, b)
    \/ OnSegment(a, c, d) \/ OnSegment(b, c, d)

RECURSIVE Area2(_, _)
Area2(poly, i) ==
    IF i > Len(poly) THEN 0
    ELSE EdgeA(poly, i).x * EdgeB(poly, i).z
         - EdgeB(poly, i).x * EdgeA(poly, i).z + Area2(poly, i + 1)

\* Polygon.is_valid: a simple ring enclosing some area
IsValid(poly) ==
    LET n == Len(poly) IN
    /\ Area2(poly, 1) # 0
    /\ \A i, j \in 1..n :
         (i < j /\ j # i + 1 /\ ~(i = 1 /\ j = n)) =>
            ~SegmentsMeet(EdgeA(poly, i), EdgeB(poly, i),
                          EdgeA(poly, j), EdgeB(poly, j))
    /\ \A i \in 1..n :
         LET a == EdgeA(poly, i)
             b == EdgeB(poly, i)
             c == EdgeB(poly, (i % n) + 1)
         IN ~(Cross(a, b, c) = 0
              /\ (c.x - b.x) * (a.x - b.x) + (c.z - b.z) * (a.z - b.z) > 0)

\* squared distance from p to the segment a-b is below d*d
NearSegment(p, a, b, d) ==
    LET t == (p.x - a.x) * (b.x - a.x) + (p.z - a.z) * (b.z - a.z)
        l == (b.x - a.x) * (b.x - a.x) + (b.z - a.z) * (b.z - a.z)
    IN IF t <= 0
       THEN (p.x - a.x) * (p.x - a.x) + (p.z - a.z) * (p.z - a.z) < d * d
       ELSE IF t >= l
       THEN (p.x - b.x) * (p.x - b.x) + (p.z - b.z) * (p.z - b.z) < d * d
       ELSE Cross(a, b, p) * Cross(a, b, p) < d * d * l

\* Polygon.buffer(d).contains(Point): the point is less than d away from the
\* polygon (d = 0 leaves the polygon as it is)
BufferContains(poly, d, p) ==
    \/ PolyContains(poly, p)
    \/ /\ d > 0
       /\ \E i \in 1..Len(poly) :
            NearSegment(p, EdgeA(poly, i), EdgeB(poly, i), d)

BBox(polygon) ==
    [min_x |-> SetMin({polygon[i].x : i \in DOMAIN polygon}),
     max_x |-> SetMax({polygon[i].x : i \in DOMAIN polygon}),
     min_z |-> SetMin({polygon[i].z : i \in DOMAIN polygon}),
     max_z |-> SetMax({polygon[i].z : i \in DOMAIN polygon})]

\* the values first, first + step, ... that are <= last
RECURSIVE GridAxis(_, _, _)
GridAxis(first, last, step) ==
    IF first > last THEN <<>>
    ELSE <<first>> \o GridAxis(first + step, last, step)

\* the grid positions both generators scan, x outermost
GridCells(polygon, spacing_m) ==
    LET bb == BBox(polygon)
        gx == GridAxis(bb.min_x + spacing_m \div 2, bb.max_x, spacing_m)
        gz == GridAxis(bb.min_z + spacing_m \div 2, bb.max_z, spacing_m)
    IN Concat([i \in DOMAIN gx |-> [j \in DOMAIN gz |-> Pt(gx[i], gz[j])]])

\* the obstacles both generators keep: at least 3 vertices and valid
ValidObstacles(obstacles) ==
    SelectSeq(obstacles, LAMBDA obs : Len(obs) >= 3 /\ IsValid(obs))

(***************************************************************************)
(* random.seed(seed); the n-th random.uniform(a, b) after it (n = 0, 1,..) *)
(* The stream is a function of the seed; a draw is one of a, the midpoint  *)
(* and b, and the seeds 0..3^n-1 give every stream of n draws.             *)
(***************************************************************************)
RandomUniform(seed, n, a, b) == a + ((seed \div Pow(3, n)) % 3) * ((b - a) \div 2)

(***************************************************************************)
(* sample_points_in_polygon                                                *)
(***************************************************************************)
SampleAccepted(polygon, obstacle_polys, pt) ==
    /\ PolyContains(polygon, pt)
    /\ ~\E o \in DOMAIN obstacle_polys : PolyContains(obstacle_polys[o], pt)

JitteredCell(cells, c, spacing_m, seed) ==
    LET jitter == spacing_m \div 4 IN
    Pt(cells[c].x + RandomUniform(seed, 2 * (c - 1), -jitter, jitter),
       cells[c].z + RandomUniform(seed, 2 * (c - 1) + 1, -jitter, jitter))

\* mutant: the grid position is tested, the jittered point is kept
RECURSIVE SampleLoopUnjittered(_, _, _, _, _, _, _)
SampleLoopUnjittered(cells, c, polygon, obstacle_polys, spacing_m, seed, acc) ==
    IF c > Len(cells) THEN acc
    ELSE LET pt == JitteredCell(cells, c, spacing_m, seed)
             nxt == IF SampleAccepted(polygon, obstacle_polys, cells[c])
                    THEN Append(acc, [idx |-> Len(acc), x |-> pt.x, z |-> pt.z,
                                      is_critical |-> FALSE])
                    ELSE acc
         IN SampleLoopUnjittered(cells, c + 1, polygon, obstacle_polys, spacing_m,
                                 seed, nxt)

RECURSIVE SampleLoop(_, _, _, _, _, _, _)
SampleLoop(cells, c, polygon, obstacle_polys, spacing_m, seed, acc) ==
    IF c > Len(cells) THEN acc
    ELSE LET pt == JitteredCell(cells, c, spacing_m, seed)
             nxt == IF SampleAccepted(polygon, obstacle_polys, pt)
                    THEN Append(acc, [idx |-> Len(acc), x |-> pt.x, z |-> pt.z,
                                      is_critical |-> FALSE])
                    ELSE acc
         IN SampleLoop(cells, c + 1, polygon, obstacle_polys, spacing_m, seed, nxt)

sample_points_in_polygon(polygon, spacing_m, seed, obstacles) ==
    SampleLoop(GridCells(polygon, spacing_m), 1, polygon,
               ValidObstacles(obstacles), spacing_m, seed, <<>>)

(***************************************************************************)
(* mark_critical_points                                                    *)
(***************************************************************************)
mark_critical_points(pts, critical_polygon) ==
    IF Len(critical_polygon) >= 3
    THEN [i \in DOMAIN pts |->
            IF PolyContains(critical_polygon, Pt(pts[i].x, pts[i].z))
            THEN [pts[i] EXCEPT !.is_critical = TRUE]
            ELSE pts[i]]
    ELSE pts

(***************************************************************************)
(* generate_candidates                                                     *)
(***************************************************************************)
\* np.arange(0, 360, yaw_step)
Arange(start, stop, step) == GridAxis(start, stop - 1, step)

YawAngles(model) ==
    IF model.hfov_deg >= 360 \/ model.dome_mode
    THEN <<0>>
    ELSE Arange(0, 360, DefaultYawStep)

\* mutant: the obstacles are not inflated by the keepout distance
CandidateAcceptedNoBuffer(polygon, obstacle_polys, keepout_m, pt) ==
    /\ PolyContains(polygon, pt)
    /\ ~\E o \in DOMAIN obstacle_polys : PolyContains(obstacle_polys[o], pt)

CandidateAccepted(polygon, obstacle_polys, keepout_m, pt) ==
    /\ PolyContains(polygon, pt)
    /\ ~\E o \in DOMAIN obstacle_polys :
          BufferContains(obstacle_polys[o], keepout_m, pt)

RECURSIVE CandidateLoop(_, _, _, _, _, _, _)
CandidateLoop(cells, c, polygon, obstacle_polys, keepout_m, yaw_angles, acc) ==
    IF c > Len(cells) THEN acc
    ELSE LET nxt ==
               IF CandidateAccepted(polygon, obstacle_polys, keepout_m, cells[c])
               THEN acc \o [y \in DOMAIN yaw_angles |->
                              [idx |-> Len(acc) + y - 1, x |-> cells[c].x,
                               z |-> cells[c].z, yaw_deg |-> yaw_angles[y],
                               covered_points |-> <<>>]]
               ELSE acc
         IN CandidateLoop(cells, c + 1, polygon, obstacle_polys, keepout_m,
                          yaw_angles, nxt)

generate_candidates(polygon, spacing_m, keepout_m, model, seed, obstacles) ==
    CandidateLoop(GridCells(polygon, spacing_m), 1, polygon,
                  ValidObstacles(obstacles), keepout_m, YawAngles(model), <<>>)

(***************************************************************************)
(* compute_effective_radius: the radius squared, <<numerator, denominator>>*)
(***************************************************************************)
\* tan(vfov_deg / 2) squared, exact for the half angles 30, 45 and 60 degrees
TanSqHalf(vfov_deg) ==
    CASE vfov_deg = 60 -> <<1, 3>>
      [] vfov_deg = 90 -> <<1, 1>>
      [] vfov_deg = 120 -> <<3, 1>>

RatLeq(a, b) == a[1] * b[2] <= b[1] * a[2]

RatMin(a, b) == IF RatLeq(a, b) THEN a ELSE b

\* mutant: only dome_mode selects the horizontal range
RadiusDomeOnly(model, mount_height) ==
    IF model.dome_mode
    THEN <<81 * model.range_m * model.range_m, 100>>
    ELSE LET t == TanSqHalf(model.vfov_deg) IN
         RatMin(<<model.range_m * model.range_m, 1>>,
                <<mount_height * mount_height * t[1], t[2]>>)

\* the square of the radius returned, as <<numerator, denominator>>
compute_effective_radius(model, mount_height) ==
    IF model.dome_mode \/ model.hfov_deg >= 360
    THEN <<81 * model.range_m * model.range_m, 100>>
    ELSE LET t == TanSqHalf(model.vfov_deg) IN
         RatMin(<<model.range_m * model.range_m, 1>>,
                <<mount_height * mount_height * t[1], t[2]>>)

\* int(n / d) for d > 0: truncation towards zero
TruncDiv(n, d) == IF n >= 0 THEN n \div d ELSE -((-n) \div d)

(***************************************************************************)
(* Python floats: binary floating point, every operation rounded to the    *)
(* nearest value of FloatBits significant bits, ties to the even one (the  *)
(* width is 53 in the build).  A float is <<n, d>>, the number n / d, d a  *)
(* power of two.                                                           *)
(***************************************************************************)
Fl(k) == <<k, 1>>

FlHigh == Pow(2, FloatBits)

FlLow == Pow(2, FloatBits - 1)

RECURSIVE FlReduce(_, _)
FlReduce(n, d) ==
    IF d > 1 /\ n % 2 = 0 THEN FlReduce(n \div 2, d \div 2) ELSE <<n, d>>

\* n / d > 0 rounded to FloatBits significant bits, times up / down
RECURSIVE FlRoundPos(_, _, _, _)
FlRoundPos(n, d, up, down) ==
    IF n >= FlHigh * d THEN FlRoundPos(n, 2 * d, 2 * up, down)
    ELSE IF n < FlLow * d THEN FlRoundPos(2 * n, d, up, 2 * down)
    ELSE LET m == n \div d
             r == n % d
             nearest == IF 2 * r > d \/ (2 * r = d /\ m % 2 = 1) THEN m + 1 ELSE m
         IN FlReduce(nearest * up, down)

\* the float nearest to n / d, d > 0
FlRound(n, d) ==
    IF n = 0 THEN <<0, 1>>
    ELSE IF n > 0 THEN FlRoundPos(n, d, 1, 1)
    ELSE LET r == FlRoundPos(-n, d, 1, 1) IN <<-r[1], r[2]>>

FlAdd(a, b) ==
    LET d == Max2(a[2], b[2])
    IN FlRound(a[1] * (d \div a[2]) + b[1] * (d \div b[2]), d)

FlSub(a, b) == FlAdd(a, <<-b[1], b[2]>>)

FlMul(a, b) == FlRound(a[1] * b[1], a[2] * b[2])

\* a / b, b > 0
FlDiv(a, b) == FlRound(a[1] * b[2], a[2] * b[1])

FlAbs(a) == <<Abs(a[1]), a[2]>>

\* a % m for m > 0: the remainder of the division is exact and has the sign
\* of a; m is added to a negative one
FlMod(a, m) ==
    LET r == <<Abs(a[1]) % (m[1] * a[2]), a[2] * m[2]>>
    IN IF r[1] = 0 THEN <<0, 1>>
       ELSE IF a[1] > 0 THEN FlReduce(r[1], r[2])
       ELSE FlAdd(<<-r[1], r[2]>>, m)

FlLess(a, b) == a[1] * b[2] < b[1] * a[2]

\* int(a): truncation towards zero
FlInt(a) == TruncDiv(a[1], a[2])

\* the largest m in lo..hi with m * m * d <= n
RECURSIVE FloorSqrtBetween(_, _, _, _)
FloorSqrtBetween(lo, hi, n, d) ==
    IF lo = hi THEN lo
    ELSE LET mid == (lo + hi + 1) \div 2
         IN IF mid * mid * d <= n THEN FloorSqrtBetween(mid, hi, n, d)
            ELSE FloorSqrtBetween(lo, mid - 1, n, d)

\* math.sqrt(n / d) for n / d > 0, times up / down: the nearest float
RECURSIVE FlSqrtPos(_, _, _, _)
FlSqrtPos(n, d, up, down) ==
    IF n >= FlHigh * FlHigh * d THEN FlSqrtPos(n, 4 * d, 2 * up, down)
    ELSE IF n < FlLow * FlLow * d THEN FlSqrtPos(4 * n, d, up, 2 * down)
    ELSE LET m == FloorSqrtBetween(FlLow, FlHigh - 1, n, d)
             odd == (2 * m + 1) * (2 * m + 1)
             nearest == IF odd * d < 4 * n \/ (odd * d = 4 * n /\ m % 2 = 1)
                        THEN m + 1 ELSE m
         IN FlReduce(nearest * up, down)

FlSqrt(a) == IF a[1] = 0 THEN <<0, 1>> ELSE FlSqrtPos(a[1], a[2], 1, 1)

(***************************************************************************)
(* math.degrees(math.atan2(dz, dx)): exact when the angle is a multiple of *)
(* 15 degrees, and otherwise an integer strictly inside the same 15 degree *)
(* sector, so that every comparison with a multiple of 15 degrees is the   *)
(* comparison the code makes.                                              *)
(***************************************************************************)
\* a, b > 0: b / a < tan(15 degrees) = 2 - sqrt(3)
BelowTan15(a, b) == 2 * a - b > 0 /\ 3 * a * a < (2 * a - b) * (2 * a - b)

\* the angle of (a, b), a, b >= 0 and not both 0, in 0..90
FirstQuadrantDeg(a, b) ==
    IF b = 0 THEN 0
    ELSE IF a = 0 THEN 90
    ELSE IF BelowTan15(a, b) THEN 7
    ELSE IF 3 * b * b < a * a THEN 22
    ELSE IF b < a THEN 37
    ELSE IF b = a THEN 45
    ELSE IF b * b < 3 * a * a THEN 52
    ELSE IF ~BelowTan15(b, a) THEN 67
    ELSE 82

Atan2Deg(dz, dx) ==
    IF dx = 0 /\ dz = 0 THEN 0
    ELSE LET q == FirstQuadrantDeg(Abs(dx), Abs(dz)) IN
         IF dx >= 0 /\ dz >= 0 THEN q
         ELSE IF dz >= 0 THEN 180 - q
         ELSE IF dx >= 0 THEN -q
         ELSE q - 180

\* mutant: the difference is not wrapped
AngleDiffNoWrap(a, b) == FlAbs(FlSub(a, b))

\* a and b are floats
smallest_angle_diff(a, b) ==
    FlAbs(FlSub(FlMod(FlAdd(FlSub(a, b), Fl(180)), Fl(360)), Fl(180)))

(***************************************************************************)
(* build_obstacle_grid and check_los_blocked                               *)
(***************************************************************************)
\* obstacle_grid = None, grid_bounds = None
NoGrid ==
    [shape |-> <<0, 0>>, cells |-> {},
     bounds |-> [min_x |-> 0, max_x |-> 0, min_z |-> 0, max_z |-> 0]]

\* obstacle_grid is None
IsNone(grid) == grid.shape = <<0, 0>>

Doubled(poly) == [i \in DOMAIN poly |-> Pt(2 * poly[i].x, 2 * poly[i].z)]

build_obstacle_grid(polygon, obstacles, cell_size) ==
    LET bb == BBox(polygon)
        width == TruncDiv(bb.max_x - bb.min_x, cell_size) + 1
        height == TruncDiv(bb.max_z - bb.min_z, cell_size) + 1
        obs == ValidObstacles(obstacles)
    IN [shape |-> <<height, width>>,
        cells |-> {rc \in (0..(height - 1)) \X (0..(width - 1)) :
                     \E o \in DOMAIN obs :
                        PolyContains(Doubled(obs[o]),
                            Pt(2 * bb.min_x + (2 * rc[2] + 1) * cell_size,
                               2 * bb.min_z + (2 * rc[1] + 1) * cell_size))},
        bounds |-> bb]

\* the coordinates are whole numbers, which are floats
check_los_blocked(cx, cz, px, pz, grid, cell_size) ==
    IF IsNone(grid) THEN FALSE
    ELSE LET dx == FlSub(Fl(px), Fl(cx))
             dz == FlSub(Fl(pz), Fl(cz))
             dist == FlSqrt(FlAdd(FlMul(dx, dx), FlMul(dz, dz)))
         IN IF FlLess(dist, <<1, 100>>) THEN FALSE
            ELSE LET steps == FlInt(FlDiv(dist, FlMul(Fl(cell_size), <<1, 2>>))) + 1
                 IN \E i \in 1..(steps - 1) :
                      LET t == FlDiv(Fl(i), Fl(steps))
                          x == FlAdd(Fl(cx), FlMul(dx, t))
                          z == FlAdd(Fl(cz), FlMul(dz, t))
                          col == FlInt(FlDiv(FlSub(x, Fl(grid.bounds.min_x)),
                                             Fl(cell_size)))
                          row == FlInt(FlDiv(FlSub(z, Fl(grid.bounds.min_z)),
                                             Fl(cell_size)))
                      IN /\ 0 <= row /\ row < grid.shape[1]
                         /\ 0 <= col /\ col < grid.shape[2]
                         /\ <<row, col>> \in grid.cells

(***************************************************************************)
(* compute_coverage_sets                                                   *)
(***************************************************************************)
\* mutant: the field of view is not checked
CoversNoWedge(c, p, model, reff, los_enabled, grid, los_cell_m) ==
    LET dx == p.x - c.x
        dz == p.z - c.z
    IN /\ (dx * dx + dz * dz) * reff[2] <= reff[1]
       /\ (los_enabled /\ ~IsNone(grid)) =>
             ~check_los_blocked(c.x, c.z, p.x, p.z, grid, los_cell_m)

Covers(c, p, model, reff, los_enabled, grid, los_cell_m) ==
    LET dx == p.x - c.x
        dz == p.z - c.z
    IN /\ (dx * dx + dz * dz) * reff[2] <= reff[1]
       /\ (model.hfov_deg < 360 /\ ~model.dome_mode) =>
             ~FlLess(FlDiv(Fl(model.hfov_deg), Fl(2)),
                     smallest_angle_diff(Fl(Atan2Deg(dz, dx)), Fl(c.yaw_deg)))
       /\ (los_enabled /\ ~IsNone(grid)) =>
             ~check_los_blocked(c.x, c.z, p.x, p.z, grid, los_cell_m)

compute_coverage_sets(cands, pts, model, reff, los_enabled, grid, los_cell_m) ==
    [i \in DOMAIN cands |->
        [cands[i] EXCEPT !.covered_points =
            LET hit == SelectSeq(pts, LAMBDA p :
                         Covers(cands[i], p, model, reff, los_enabled, grid,
                                los_cell_m))
            IN [j \in DOMAIN hit |-> hit[j].idx]]]

(***************************************************************************)
(* solve_k_coverage                                                        *)
(***************************************************************************)
CandIdx(cands) == {cands[i].idx : i \in DOMAIN cands}

\* candidate_map[c_idx]
CandAt(cands, c_idx) == cands[c_idx + 1]

\* point_covers[p_idx]
PointCovers(cands, p_idx) ==
    {c_idx \in CandIdx(cands) : p_idx \in Range(CandAt(cands, c_idx).covered_points)}

\* sum(x[c_idx] for c_idx in covering) under the assignment x = 1 on chosen
CoverSum(chosen, cands, p_idx) == Cardinality(chosen \cap PointCovers(cands, p_idx))

\* int(settings.overlap_target_pct * len(points)), the fraction in percent
TargetCount(settings, pts) == (settings.overlap_target_pct * Len(pts)) \div 100

\* mutant: a sample no candidate covers is constrained like the others
ModelSatisfiedAllPoints(chosen, cands, pts, settings) ==
    CASE settings.overlap_mode = "everywhere" ->
           \A i \in DOMAIN pts :
              CoverSum(chosen, cands, pts[i].idx) >= settings.k_required
      [] settings.overlap_mode = "critical_only" ->
           \A i \in DOMAIN pts :
              CoverSum(chosen, cands, pts[i].idx) >=
                 (IF pts[i].is_critical THEN settings.k_required ELSE 1)
      [] settings.overlap_mode = "percent_target" ->
           /\ \A i \in DOMAIN pts : CoverSum(chosen, cands, pts[i].idx) >= 1
           /\ Cardinality({i \in DOMAIN pts :
                 CoverSum(chosen, cands, pts[i].idx) >= settings.k_required})
              >= TargetCount(settings, pts)

\* the assignment x = 1 on chosen meets every constraint model.Add stated
ModelSatisfied(chosen, cands, pts, settings) ==
    LET coverable == {i \in DOMAIN pts : PointCovers(cands, pts[i].idx) # {}} IN
    CASE settings.overlap_mode = "everywhere" ->
           \A i \in coverable :
              CoverSum(chosen, cands, pts[i].idx) >= settings.k_required
      [] settings.overlap_mode = "critical_only" ->
           \A i \in coverable :
              CoverSum(chosen, cands, pts[i].idx) >=
                 (IF pts[i].is_critical THEN settings.k_required ELSE 1)
      [] settings.overlap_mode = "percent_target" ->
           /\ \A i \in coverable : CoverSum(chosen, cands, pts[i].idx) >= 1
           /\ coverable # {} =>
                 Cardinality({i \in coverable :
                    CoverSum(chosen, cands, pts[i].idx) >= settings.k_required})
                 >= TargetCount(settings, pts)

\* [c.idx for c in candidates if solver.Value(x[c.idx]) == 1]
SolverSelected(chosen) == Ascending(chosen)

\* Everything solver.Solve(model) may answer within its time limit: nothing
\* found (UNKNOWN), a proof that no assignment exists (INFEASIBLE), a
\* minimum assignment (OPTIMAL), or an assignment not proved minimum
\* (FEASIBLE), here at most MaxSlack sensors above the minimum.
SolverAnswers(cands, pts, settings) ==
    LET feasible == {chosen \in SUBSET CandIdx(cands) :
                        ModelSatisfied(chosen, cands, pts, settings)}
        best == SetMin({Cardinality(chosen) : chosen \in feasible})
    IN {[selected |-> <<>>, status |-> "UNKNOWN", ok |-> FALSE]}
       \cup (IF feasible = {}
             THEN {[selected |-> <<>>, status |-> "INFEASIBLE", ok |-> FALSE]}
             ELSE {[selected |-> SolverSelected(chosen), status |-> "OPTIMAL",
                    ok |-> TRUE] :
                      chosen \in {f \in feasible : Cardinality(f) = best}}
                  \cup
                  {[selected |-> SolverSelected(chosen), status |-> "FEASIBLE",
                    ok |-> TRUE] :
                      chosen \in {f \in feasible :
                                    Cardinality(f) <= best + MaxSlack}})

(***************************************************************************)
(* prune_redundant_sensors                                                 *)
(***************************************************************************)
\* coverage_count[p_idx] over test_selected
CoverageCount(test_selected, cands, p_idx) ==
    Cardinality({c_idx \in test_selected :
                    p_idx \in Range(CandAt(cands, c_idx).covered_points)})

\* the value of valid after the loop over points
PruneValid(test_selected, cands, pts, settings) ==
    \A i \in DOMAIN pts :
       IF settings.overlap_mode = "everywhere"
       THEN CoverageCount(test_selected, cands, pts[i].idx) >= settings.k_required
       ELSE IF settings.overlap_mode = "critical_only"
       THEN CoverageCount(test_selected, cands, pts[i].idx) >=
               (IF pts[i].is_critical THEN settings.k_required ELSE 1)
       ELSE CoverageCount(test_selected, cands, pts[i].idx) >= 1

\* mutant: the constraints are checked on the set before the removal
RECURSIVE PruneLoopStale(_, _, _, _, _)
PruneLoopStale(visit, selected, cands, pts, settings) ==
    IF visit = <<>> THEN selected
    ELSE PruneLoopStale(Tail(visit),
                        IF PruneValid(selected, cands, pts, settings)
                        THEN selected \ {Head(visit)} ELSE selected,
                        cands, pts, settings)

\* mutant: the loop ends at the first removal
RECURSIVE PruneLoopBreak(_, _, _, _, _)
PruneLoopBreak(visit, selected, cands, pts, settings) ==
    IF visit = <<>> THEN selected
    ELSE IF PruneValid(selected \ {Head(visit)}, cands, pts, settings)
    THEN selected \ {Head(visit)}
    ELSE PruneLoopBreak(Tail(visit), selected, cands, pts, settings)

\* the loop "for idx in list(selected)", the list being visit
RECURSIVE PruneLoop(_, _, _, _, _)
PruneLoop(visit, selected, cands, pts, settings) ==
    IF visit = <<>> THEN selected
    ELSE LET test_selected == selected \ {Head(visit)} IN
         PruneLoop(Tail(visit),
                   IF PruneValid(test_selected, cands, pts, settings)
                   THEN test_selected ELSE selected,
                   cands, pts, settings)

\* The set of indices left when list(selected) yields the order visit.  The
\* iteration order of a set is not defined by the language: the action that
\* calls this tries every order.
prune_redundant_sensors(visit, cands, pts, settings) ==
    PruneLoop(visit, Range(visit), cands, pts, settings)

(***************************************************************************)
(* refine_yaw_angles                                                       *)
(***************************************************************************)
PosKey(c) == <<c.x, c.z>>

\* yaw of the first entry of pos_candidates with the most covered points
BestYaw(pos_candidates) ==
    LET most == SetMax({Len(pos_candidates[i].covered_points) :
                          i \in DOMAIN pos_candidates})
        first == SetMin({i \in DOMAIN pos_candidates :
                           Len(pos_candidates[i].covered_points) = most})
    IN pos_candidates[first].yaw_deg

refine_yaw_angles(sel, cands, pts, model, reff) ==
    IF model.hfov_deg >= 360 \/ model.dome_mode
    THEN <<>>
    ELSE [idx \in Range(sel) |->
            BestYaw(SelectSeq([j \in DOMAIN sel |-> CandAt(cands, sel[j])],
                              LAMBDA c : PosKey(c) = PosKey(CandAt(cands, idx))))]

(***************************************************************************)
(* compute_coverage_stats: each fraction as <<count, total>>               *)
(***************************************************************************)
\* mutant: k-coverage counted against one cover, as in the relaxed retry
CoverageStatsRelaxed(sel, cands, pts, k_required) ==
    LET total == Len(pts)
        covered == Cardinality({i \in DOMAIN pts :
                      CoverageCount(Range(sel), cands, pts[i].idx) >= 1})
    IN IF total > 0 THEN <<(<<covered, total>>), (<<covered, total>>)>>
       ELSE <<(<<0, 1>>), (<<0, 1>>)>>

compute_coverage_stats(sel, cands, pts, k_required) ==
    LET total == Len(pts)
        covered == Cardinality({i \in DOMAIN pts :
                      CoverageCount(Range(sel), cands, pts[i].idx) >= 1})
        k_covered == Cardinality({i \in DOMAIN pts :
                      CoverageCount(Range(sel), cands, pts[i].idx) >= k_required})
    IN IF total > 0 THEN <<(<<covered, total>>), (<<k_covered, total>>)>>
       ELSE <<(<<0, 1>>), (<<0, 1>>)>>

(***************************************************************************)
(* solve_lidar_placement: the tail after pruning                           *)
(***************************************************************************)
\* selected_indices after "Limit to max sensors"
LimitToMax(sel, max_sensors) ==
    IF Len(sel) > max_sensors THEN SubSeq(sel, 1, max_sensors) ELSE sel

LimitWarnings(sel, max_sensors, warns) ==
    IF Len(sel) > max_sensors
    THEN Append(warns, <<"Reduced", Len(sel), max_sensors>>)
    ELSE warns

\* mutant: every selected index gets an entry, position seen or not
RECURSIVE BuildPositionsAll(_, _, _, _, _)
BuildPositionsAll(sel, cands, yaws, seen_positions, acc) ==
    IF sel = <<>> THEN acc
    ELSE LET c == CandAt(cands, Head(sel)) IN
         BuildPositionsAll(Tail(sel), cands, yaws, seen_positions,
                           Append(acc,
                              [x |-> c.x, z |-> c.z,
                               yaw |-> IF Head(sel) \in DOMAIN yaws
                                       THEN yaws[Head(sel)] ELSE c.yaw_deg]))

\* the loop that builds selected_positions, skipping positions already seen
RECURSIVE BuildPositions(_, _, _, _, _)
BuildPositions(sel, cands, yaws, seen_positions, acc) ==
    IF sel = <<>> THEN acc
    ELSE LET c == CandAt(cands, Head(sel)) IN
         IF PosKey(c) \in seen_positions
         THEN BuildPositions(Tail(sel), cands, yaws, seen_positions, acc)
         ELSE BuildPositions(Tail(sel), cands, yaws,
                             seen_positions \cup {PosKey(c)},
                             Append(acc,
                                [x |-> c.x, z |-> c.z,
                                 yaw |-> IF Head(sel) \in DOMAIN yaws
                                         THEN yaws[Head(sel)] ELSE c.yaw_deg]))

Failure(error) ==
    [success |-> FALSE, error |-> error, selected_positions |-> <<>>,
     num_sensors |-> 0]

(***************************************************************************)
(* The inputs solve_lidar_placement is run on.                             *)
(***************************************************************************)
RoiLine == <<Pt(0, 0), Pt(8, 0)>>

RoiSquare == <<Pt(0, 0), Pt(8, 0), Pt(8, 8), Pt(0, 8)>>

RoiSliver == <<Pt(0, 0), Pt(2, 0), Pt(0, 2)>>

ObsBox == <<Pt(1, 1), Pt(5, 1), Pt(5, 4), Pt(1, 4)>>

\* self-intersecting: not valid
ObsBowTie == <<Pt(4, 4), Pt(8, 8), Pt(8, 4), Pt(4, 8)>>

CritLeft == <<Pt(0, 0), Pt(4, 0), Pt(4, 8), Pt(0, 8)>>

\* LidarModel(vfov_deg = ..., range_m = ...): the other fields at their defaults
LidarModelOnly(vfov_deg, range_m) ==
    [hfov_deg |-> 360, vfov_deg |-> vfov_deg, range_m |-> range_m,
     dome_mode |-> TRUE]

Dome(range_m) ==
    [hfov_deg |-> 360, vfov_deg |-> 90, range_m |-> range_m, dome_mode |-> TRUE]

Partial(hfov_deg, range_m) ==
    [hfov_deg |-> hfov_deg, vfov_deg |-> 90, range_m |-> range_m,
     dome_mode |-> FALSE]

Seeds == {42, 3280}

\* overlap_mode, k_required, overlap_target_pct (in percent)
ModeConfigs ==
    {[mode |-> "everywhere", k |-> k, pct |-> 100] : k \in 1..MaxK}
    \cup {[mode |-> "critical_only", k |-> k, pct |-> 100] : k \in 1..MaxK}
    \cup {[mode |-> "percent_target", k |-> k, pct |-> pct] :
            k \in 1..MaxK, pct \in {50, 100}}

\* obstacles, keepout_distance_m, los_enabled
ObstacleConfigs ==
    {[obs |-> <<>>, keepout |-> 0, los |-> FALSE],
     [obs |-> <<ObsBox>>, keepout |-> 0, los |-> FALSE],
     [obs |-> <<ObsBox, ObsBowTie>>, keepout |-> 2, los |-> FALSE],
     [obs |-> <<ObsBowTie, ObsBox>>, keepout |-> 0, los |-> TRUE]}

Settings(candidate_spacing_m, oc, m, yaw_step_deg, max_sensors, seed) ==
    [mount_y_m |-> 4, sample_spacing_m |-> 4,
     candidate_spacing_m |-> candidate_spacing_m,
     keepout_distance_m |-> oc.keepout, overlap_mode |-> m.mode,
     k_required |-> m.k, overlap_target_pct |-> m.pct, los_enabled |-> oc.los,
     los_cell_m |-> 2, yaw_step_deg |-> yaw_step_deg,
     max_sensors |-> max_sensors, seed |-> seed]

Params(roi_polygon, oc, model, settings) ==
    [roi_polygon |-> roi_polygon, obstacles |-> oc.obs,
     critical_polygon |-> IF settings.overlap_mode = "critical_only"
                          THEN CritLeft ELSE <<>>,
     model |-> model, settings |-> settings]

NoObstacles == [obs |-> <<>>, keepout |-> 0, los |-> FALSE]

Everywhere1 == [mode |-> "everywhere", k |-> 1, pct |-> 100]

\* inputs that end the invocation before the solver
ParamsRejected ==
    {Params(roi, NoObstacles, Dome(5), Settings(4, NoObstacles, Everywhere1, 30, 50, 42)) :
        roi \in {RoiLine, RoiSliver}}
    \cup {Params(RoiSquare, oc, Dome(5), Settings(cs, oc, Everywhere1, 30, 50, 42)) :
            oc \in ObstacleConfigs, cs \in {8, 16}}

\* 360 degree sensors on the square, a candidate every 4 units
ParamsDome ==
    {Params(RoiSquare, oc, model, Settings(4, oc, m, 30, max_sensors, seed)) :
        oc \in ObstacleConfigs, model \in {Dome(5), Dome(2)}, m \in ModeConfigs,
        max_sensors \in {1, 50}, seed \in Seeds}

\* 180 degree sensors on the square, one candidate position with 12 yaws
ParamsPartial ==
    {Params(RoiSquare, NoObstacles, Partial(180, 10),
            Settings(8, NoObstacles, m, yaw_step_deg, max_sensors, 42)) :
        m \in {[mode |-> mode, k |-> k, pct |-> 100] :
                 mode \in {"everywhere", "percent_target"}, k \in {1, 2}},
        yaw_step_deg \in {30, 90}, max_sensors \in {1, 50}}

ParamSpace == ParamsRejected \cup ParamsDome \cup ParamsPartial

(***************************************************************************)
(* solve_lidar_placement                                                   *)
(***************************************************************************)
Fresh ==
    /\ pc = "start"
    /\ r_eff = None
    /\ points = <<>>
    /\ candidates = <<>>
    /\ obstacle_grid = NoGrid
    /\ warnings = <<>>
    /\ selected_indices = <<>>
    /\ solver_status = ""
    /\ success = FALSE
    /\ solve_calls = <<>>
    /\ ran = {}
    /\ pruned = <<>>
    /\ refined_yaw = <<>>
    /\ result = None

Init ==
    /\ params \in ParamSpace
    /\ Fresh
    /\ run = 1
    /\ first_result = None
    /\ solver_tape = <<>>
    /\ g_in = None
    /\ g_out = None

Return(r) == result' = r /\ pc' = "done"

\* len(roi_polygon) < 3, compute_effective_radius
Start ==
    /\ pc = "start"
    /\ IF Len(params.roi_polygon) < 3
       THEN /\ Return(Failure("ROI polygon must have at least 3 vertices"))
            /\ UNCHANGED r_eff
       ELSE /\ r_eff' = compute_effective_radius(params.model,
                                                 params.settings.mount_y_m)
            /\ pc' = "sample"
            /\ UNCHANGED result
    /\ UNCHANGED <<params, points, candidates, obstacle_grid, warnings,
                   selected_indices, solver_status, success, solve_calls, ran,
                   pruned, refined_yaw, run, first_result, solver_tape, g_in,
                   g_out>>

\* sample_points_in_polygon, mark_critical_points
Sample ==
    /\ pc = "sample"
    /\ LET pts == sample_points_in_polygon(params.roi_polygon,
                     params.settings.sample_spacing_m, params.settings.seed,
                     params.obstacles)
       IN IF Len(pts) = 0
          THEN /\ Return(Failure("No sample points generated inside ROI"))
               /\ points' = pts
          ELSE /\ points' = IF params.critical_polygon # <<>>
                            THEN mark_critical_points(pts, params.critical_polygon)
                            ELSE pts
               /\ pc' = "candidates"
               /\ UNCHANGED result
    /\ ran' = ran \cup {"sampler"}
    /\ UNCHANGED <<params, r_eff, candidates, obstacle_grid, warnings,
                   selected_indices, solver_status, success, solve_calls,
                   pruned, refined_yaw, run, first_result, solver_tape, g_in,
                   g_out>>

\* mutant: an empty candidate list does not end the invocation
GenerateUnchecked ==
    /\ pc = "candidates"
    /\ candidates' = generate_candidates(params.roi_polygon,
                         params.settings.candidate_spacing_m,
                         params.settings.keepout_distance_m, params.model,
                         params.settings.seed, params.obstacles)
    /\ pc' = "coverage"
    /\ ran' = ran \cup {"generator"}
    /\ UNCHANGED <<params, r_eff, points, obstacle_grid, warnings,
                   selected_indices, solver_status, success, solve_calls,
                   pruned, refined_yaw, result, run, first_result, solver_tape,
                   g_in, g_out>>

\* generate_candidates
Generate ==
    /\ pc = "candidates"
    /\ LET cands == generate_candidates(params.roi_polygon,
                       params.settings.candidate_spacing_m,
                       params.settings.keepout_distance_m, params.model,
                       params.settings.seed, params.obstacles)
       IN /\ candidates' = cands
          /\ IF Len(cands) = 0
             THEN Return(Failure("No candidate positions generated"))
             ELSE pc' = "coverage" /\ UNCHANGED result
    /\ ran' = ran \cup {"generator"}
    /\ UNCHANGED <<params, r_eff, points, obstacle_grid, warnings,
                   selected_indices, solver_status, success, solve_calls,
                   pruned, refined_yaw, run, first_result, solver_tape, g_in,
                   g_out>>

\* build_obstacle_grid, compute_coverage_sets
Coverage ==
    /\ pc = "coverage"
    /\ LET grid == IF params.settings.los_enabled /\ params.obstacles # <<>>
                   THEN build_obstacle_grid(params.roi_polygon, params.obstacles,
                                            params.settings.los_cell_m)
                   ELSE NoGrid
       IN /\ obstacle_grid' = grid
          /\ candidates' = compute_coverage_sets(candidates, points, params.model,
                              r_eff, params.settings.los_enabled, grid,
                              params.settings.los_cell_m)
    /\ ran' = ran \cup {"coverage"}
    /\ pc' = "solve"
    /\ UNCHANGED <<params, r_eff, points, warnings, selected_indices,
                   solver_status, success, solve_calls, pruned, refined_yaw,
                   result, run, first_result, solver_tape, g_in, g_out>>

\* mutant: the retry keeps the overlap mode
RelaxedSettingsKeepMode(settings) == [settings EXCEPT !.k_required = 1]

\* relaxed_settings
RelaxedSettings(settings) ==
    [settings EXCEPT !.k_required = 1, !.overlap_mode = "everywhere"]

\* One call of solve_k_coverage.  The solver is seeded: a second invocation
\* of solve on the same params gets the answers the first one got.
CallSolver(settings) ==
    /\ \E a \in (IF run = 1
                 THEN SolverAnswers(candidates, points, settings)
                 ELSE {solver_tape[Len(solve_calls) + 1]}) :
          /\ selected_indices' = a.selected
          /\ solver_status' = a.status
          /\ success' = a.ok
          /\ solver_tape' = IF run = 1 THEN Append(solver_tape, a) ELSE solver_tape
    /\ solve_calls' = Append(solve_calls,
                             [overlap_mode |-> settings.overlap_mode,
                              k_required |-> settings.k_required])
    /\ ran' = ran \cup {"solver"}

\* the first solve_k_coverage
Solve ==
    /\ pc = "solve"
    /\ warnings' = <<>>
    /\ CallSolver(params.settings)
    /\ pc' = "solved"
    /\ UNCHANGED <<params, r_eff, points, candidates, obstacle_grid, pruned,
                   refined_yaw, result, run, first_result, g_in, g_out>>

\* "if not success": the warning and the relaxed solve_k_coverage; then
\* "if not success": the failure
Retry ==
    /\ pc = "solved"
    /\ ~success
    /\ warnings' = Append(warnings, <<"Initial solve failed, relaxing to k=1",
                                      solver_status>>)
    /\ CallSolver(RelaxedSettings(params.settings))
    /\ IF success'
       THEN pc' = "prune" /\ UNCHANGED result
       ELSE Return([success |-> FALSE,
                    error |-> <<"Solver failed", solver_status'>>,
                    selected_positions |-> <<>>, num_sensors |-> 0,
                    warnings |-> warnings'])
    /\ UNCHANGED <<params, r_eff, points, candidates, obstacle_grid, pruned,
                   refined_yaw, run, first_result, g_in, g_out>>

\* the first solve succeeded: on to the pruner
NoRetry ==
    /\ pc = "solved"
    /\ success
    /\ pc' = "prune"
    /\ UNCHANGED <<params, r_eff, points, candidates, obstacle_grid, warnings,
                   selected_indices, solver_status, success, solve_calls, ran,
                   pruned, refined_yaw, result, run, first_result, solver_tape,
                   g_in, g_out>>

\* prune_redundant_sensors: list(selected) in the loop header and in the
\* return statement each yield the set in some order
Prune ==
    /\ pc = "prune"
    /\ \E left \in {prune_redundant_sensors(visit, candidates, points,
                                              params.settings) :
                         visit \in Orderings(Range(selected_indices))} :
          \E out \in Orderings(left) :
             /\ selected_indices' = out
             /\ pruned' = out
    /\ ran' = ran \cup {"pruner"}
    /\ pc' = "limit"
    /\ UNCHANGED <<params, r_eff, points, candidates, obstacle_grid, warnings,
                   solver_status, success, solve_calls, refined_yaw, result,
                   run, first_result, solver_tape, g_in, g_out>>

\* limit to max sensors, refine_yaw_angles, the output positions,
\* compute_coverage_stats and the result
Finish ==
    /\ pc = "limit"
    /\ LET sel == LimitToMax(selected_indices, params.settings.max_sensors)
           warns == LimitWarnings(selected_indices, params.settings.max_sensors,
                                  warnings)
           yaws == refine_yaw_angles(sel, candidates, points, params.model, r_eff)
           selected_positions == BuildPositions(sel, candidates, yaws, {}, <<>>)
           stats == compute_coverage_stats(sel, candidates, points,
                                           params.settings.k_required)
       IN /\ selected_indices' = sel
          /\ warnings' = warns
          /\ refined_yaw' = yaws
          /\ Return([success |-> TRUE,
                     selected_positions |-> selected_positions,
                     num_sensors |-> Len(selected_positions),
                     coverage_pct |-> stats[1],
                     k_coverage_pct |-> stats[2],
                     overlap_mode |-> params.settings.overlap_mode,
                     k_required |-> params.settings.k_required,
                     warnings |-> warns,
                     seed |-> params.settings.seed,
                     solver_status |-> solver_status,
                     total_sample_points |-> Len(points),
                     total_candidates |-> Len(candidates),
                     effective_radius_m |-> r_eff])
    /\ ran' = ran \cup {"refiner"}
    /\ UNCHANGED <<params, r_eff, points, candidates, obstacle_grid,
                   solver_status, success, solve_calls, pruned, run,
                   first_result, solver_tape, g_in, g_out>>

Next ==
    \/ Start
    \/ Sample
    \/ Generate
    \/ Coverage
    \/ Solve
    \/ Retry
    \/ NoRetry
    \/ Prune
    \/ Finish

Spec == Init /\ [][Next]_vars

(***************************************************************************)
(* solve_lidar_placement called twice on the same params, as               *)
(* test_deterministic_results does.                                        *)
(***************************************************************************)
SolveAgain ==
    /\ pc = "done"
    /\ run = 1
    /\ first_result' = result
    /\ run' = 2
    /\ pc' = "start"
    /\ r_eff' = None
    /\ points' = <<>>
    /\ candidates' = <<>>
    /\ obstacle_grid' = NoGrid
    /\ warnings' = <<>>
    /\ selected_indices' = <<>>
    /\ solver_status' = ""
    /\ success' = FALSE
    /\ solve_calls' = <<>>
    /\ ran' = {}
    /\ pruned' = <<>>
    /\ refined_yaw' = <<>>
    /\ result' = None
    /\ UNCHANGED <<params, solver_tape, g_in, g_out>>

NextTwice == Next \/ SolveAgain

SpecTwice == Init /\ [][NextTwice]_vars

(***************************************************************************)
(* Properties.                                                             *)
(***************************************************************************)
Done == pc = "done"

Succeeded == Done /\ "refiner" \in ran

\* the settings of the solve_k_coverage call that produced the selection
LastCall == solve_calls[Len(solve_calls)]

\* what that call's constraints require of a coverable sample
RequiredBySolve(p) ==
    IF LastCall.overlap_mode = "everywhere" THEN LastCall.k_required
    ELSE IF LastCall.overlap_mode = "critical_only"
    THEN (IF p.is_critical THEN LastCall.k_required ELSE 1)
    ELSE 1

Coverable(p) == PointCovers(candidates, p.idx) # {}

RelaxationWarnings ==
    {i \in DOMAIN warnings : warnings[i][1] = "Initial solve failed, relaxing to k=1"}

TruncationWarnings == {i \in DOMAIN warnings : warnings[i][1] = "Reduced"}

C2_PrunedMeetsSolveConstraints ==
    "pruner" \in ran =>
       \A i \in DOMAIN points :
          Coverable(points[i]) =>
             CoverageCount(Range(pruned), candidates, points[i].idx)
                >= RequiredBySolve(points[i])

\* the pruner removed a sensor and left some coverable sample with exactly
\* the cover its solve required
C2_Witness ==
    /\ pc = "limit"
    /\ Len(pruned) < Len(solver_tape[Len(solver_tape)].selected)
    /\ \E i \in DOMAIN points :
          /\ Coverable(points[i])
          /\ CoverageCount(Range(pruned), candidates, points[i].idx)
                = RequiredBySolve(points[i])

\* C3: in percent_target mode, when the initial solve succeeds, the set left
\* by the pruner still k-covers at least floor(overlap_target_pct * N)
\* samples, N counting the uncoverable samples too.
C3_PrunedKeepsPercentTarget ==
    ("pruner" \in ran /\ params.settings.overlap_mode = "percent_target"
       /\ Len(solve_calls) = 1) =>
       Cardinality({i \in DOMAIN points :
           CoverageCount(Range(pruned), candidates, points[i].idx)
              >= params.settings.k_required})
       >= TargetCount(params.settings, points)

\* C5: the solver is called at most twice; a failed first call is followed by
\* exactly one retry with overlap_mode = everywhere and k_required = 1 and
\* exactly one relaxation warning; a successful first call by no retry and no
\* relaxation warning; a failed retry ends in success = false with the solver
\* status in the error, no positions and num_sensors = 0.
C5_InfeasibilityRecovery ==
    /\ Len(solve_calls) <= 2
    /\ pc \in {"prune", "limit", "done"} /\ solve_calls # <<>> =>
          IF solver_tape[1].ok
          THEN Len(solve_calls) = 1 /\ RelaxationWarnings = {}
          ELSE /\ Len(solve_calls) = 2
               /\ solve_calls[2] = [overlap_mode |-> "everywhere", k_required |-> 1]
               /\ Cardinality(RelaxationWarnings) = 1
               /\ ~solver_tape[2].ok =>
                     /\ Done
                     /\ ~result.success
                     /\ result.error = <<"Solver failed", solver_tape[2].status>>
                     /\ result.selected_positions = <<>>
                     /\ result.num_sensors = 0

\* both calls failed
C5_Witness ==
    Done /\ Len(solve_calls) = 2 /\ ~solver_tape[1].ok /\ ~solver_tape[2].ok

ValidationFailed ==
    \/ Len(params.roi_polygon) < 3
    \/ "sampler" \in ran /\ points = <<>>
    \/ "generator" \in ran /\ candidates = <<>>

\* C6: a ROI of fewer than 3 vertices, an empty sample list or an empty
\* candidate list ends the invocation with success = false, an error, no
\* positions and num_sensors = 0, and the coverage builder, the solver, the
\* pruner and the refiner never run.
C6_ValidationFailuresTerminal ==
    (ValidationFailed /\ pc # "start") =>
       /\ Done
       /\ ~result.success
       /\ result.error \in {"ROI polygon must have at least 3 vertices",
                            "No sample points generated inside ROI",
                            "No candidate positions generated"}
       /\ result.selected_positions = <<>>
       /\ result.num_sensors = 0
       /\ ran \cap {"coverage", "solver", "pruner", "refiner"} = {}

\* the sampler found points and the generator no candidate
C6_Witness ==
    Done /\ points # <<>> /\ "generator" \in ran /\ candidates = <<>>

\* the deduplicated position list of everything the pruner returned
DedupOfPruned ==
    BuildPositions(pruned, candidates, refined_yaw, {}, <<>>)

\* C7: on a successful result num_sensors <= max_sensors, and the truncation
\* warning is there if and only if the deduplicated position list was
\* truncated, that is, held more than max_sensors positions.
C7_CappedAndWarnedIffTruncated ==
    Succeeded =>
       /\ result.num_sensors <= params.settings.max_sensors
       /\ (TruncationWarnings # {}) <=>
             (Len(DedupOfPruned) > params.settings.max_sensors)

InKeepout(p) ==
    \E o \in DOMAIN params.obstacles :
       /\ Len(params.obstacles[o]) >= 3
       /\ IsValid(params.obstacles[o])
       /\ BufferContains(params.obstacles[o],
                         params.settings.keepout_distance_m, p)

\* C9: no candidate lies outside the ROI or within keepout distance of a
\* valid obstacle (less than keepout away from it), and no position of a
\* successful result lies inside a keepout-buffered obstacle.
C9_CandidatesKeepOut ==
    /\ \A i \in DOMAIN candidates :
          /\ PolyContains(params.roi_polygon, Pt(candidates[i].x, candidates[i].z))
          /\ ~InKeepout(Pt(candidates[i].x, candidates[i].z))
    /\ Succeeded =>
          \A i \in DOMAIN result.selected_positions :
             ~InKeepout(Pt(result.selected_positions[i].x,
                           result.selected_positions[i].z))

\* a successful result on a ROI where the keepout buffer alone, not the
\* obstacle itself, rejected a grid position
C9_Witness ==
    /\ Succeeded
    /\ result.num_sensors > 0
    /\ \E c \in Range(GridCells(params.roi_polygon,
                                params.settings.candidate_spacing_m)) :
          /\ InKeepout(c)
          /\ \A o \in DOMAIN params.obstacles :
                ~PolyContains(params.obstacles[o], c)

\* the yaws of the candidates at position key, in index order
YawsAt(key) ==
    LET there == SelectSeq(candidates, LAMBDA c : PosKey(c) = key)
    IN [i \in DOMAIN there |-> there[i].yaw_deg]

\* C10: every accepted grid position gets exactly one candidate with yaw 0
\* for a dome or hfov >= 360 model, and otherwise one candidate per yaw 0,
\* yaw_step, 2 * yaw_step, ... below 360, yaw_step being the yaw_step
\* setting; so a partial model with yaw_step < 360 gets more candidates than
\* positions.
C10_YawsFollowSetting ==
    "generator" \in ran =>
       LET accepted == {PosKey(c) :
              c \in {g \in Range(GridCells(params.roi_polygon,
                                    params.settings.candidate_spacing_m)) :
                       CandidateAccepted(params.roi_polygon,
                          ValidObstacles(params.obstacles),
                          params.settings.keepout_distance_m, g)}}
           full == params.model.dome_mode \/ params.model.hfov_deg >= 360
       IN /\ \A key \in accepted :
                YawsAt(key) = IF full THEN <<0>>
                              ELSE Arange(0, 360, params.settings.yaw_step_deg)
          /\ (~full /\ accepted # {} /\ params.settings.yaw_step_deg < 360) =>
                Len(candidates) > Cardinality(accepted)

\* the sample p is within r_eff of the candidate c
WithinRadius(c, p) ==
    ((p.x - c.x) * (p.x - c.x) + (p.z - c.z) * (p.z - c.z)) * r_eff[2] <= r_eff[1]

\* the bearing from c to p is within hfov / 2 of the yaw of c
WithinWedge(c, p) ==
    LET diff == smallest_angle_diff(Fl(Atan2Deg(p.z - c.z, p.x - c.x)),
                                    Fl(c.yaw_deg))
    IN 2 * diff[1] <= params.model.hfov_deg * diff[2]

\* C11: when compute_coverage_sets returns, the covered_points of every candidate c
\* is the strictly ascending list of the indices of the samples p within
\* r_eff of c, within hfov / 2 of its yaw when hfov < 360 and the model is no
\* dome, and with a line of sight to c that is not blocked when los_enabled
\* and a grid is present.
C11_CoverageSetsExact ==
    pc = "solve" =>
       \A i \in DOMAIN candidates :
          candidates[i].covered_points =
             Ascending({points[j].idx : j \in
                {j \in DOMAIN points :
                   /\ WithinRadius(candidates[i], points[j])
                   /\ (params.model.hfov_deg < 360 /\ ~params.model.dome_mode) =>
                         WithinWedge(candidates[i], points[j])
                   /\ (params.settings.los_enabled /\ ~IsNone(obstacle_grid)) =>
                         ~check_los_blocked(candidates[i].x, candidates[i].z,
                                            points[j].x, points[j].z,
                                            obstacle_grid,
                                            params.settings.los_cell_m)}})

\* a candidate of a partial model covers two samples or more and has a
\* sample within its radius outside its wedge
C11_WedgeCase ==
    /\ pc = "solve"
    /\ \E i \in DOMAIN candidates :
          /\ Len(candidates[i].covered_points) >= 2
          /\ \E j \in DOMAIN points :
                /\ WithinRadius(candidates[i], points[j])
                /\ ~WithinWedge(candidates[i], points[j])
                /\ ~params.model.dome_mode

\* a sample within the radius of a candidate, its line of sight blocked by an
\* obstacle cell
C11_Witness ==
    /\ pc = "solve"
    /\ \E i \in DOMAIN candidates : \E j \in DOMAIN points :
          /\ WithinRadius(candidates[i], points[j])
          /\ check_los_blocked(candidates[i].x, candidates[i].z,
                               points[j].x, points[j].z, obstacle_grid,
                               params.settings.los_cell_m)

(***************************************************************************)
(* Stand-alone calls of sample_points_in_polygon and of                    *)
(* prune_redundant_sensors (twice, the second time on its own output).     *)
(***************************************************************************)
RoiTriangle == <<Pt(0, 0), Pt(8, 0), Pt(0, 8)>>

ObsTall == <<Pt(4, 1), Pt(6, 1), Pt(6, 7), Pt(4, 7)>>

ObsShort == <<Pt(1, 1), Pt(7, 7)>>

SamplerInputs ==
    {i \in [fn : {"sample_points_in_polygon"},
            polygon : {RoiSquare, RoiTriangle},
            spacing_m : {4, 8},
            seed : 0..MaxSeed,
            obstacles : {<<>>, <<ObsTall>>, <<ObsBowTie, ObsBox>>,
                         <<ObsShort, ObsTall>>}] :
        i.spacing_m = 8 => i.seed < 9 /\ i.polygon = RoiSquare}

\* n sample points, the flags in critical saying which are critical
PrunerPoints(n, critical) ==
    [i \in 1..n |-> [idx |-> i - 1, x |-> 0, z |-> 0,
                     is_critical |-> (i - 1) \in critical]]

\* candidates 0..Len(covers)-1, candidate i covering the samples covers[i+1]
PrunerCandidates(covers) ==
    [i \in DOMAIN covers |-> [idx |-> i - 1, x |-> 0, z |-> 0, yaw_deg |-> 0,
                              covered_points |-> Ascending(covers[i])]]

\* The pruner reads the selected candidates only, so all the candidates
\* given are selected; it reads is_critical in critical_only mode only.
\* Fewer samples are the case of several samples with the same cover.
PrunerInputs ==
    {i \in {[fn |-> "prune_redundant_sensors",
             selected_indices |-> [j \in DOMAIN covers |-> j - 1],
             candidates |-> PrunerCandidates(covers),
             points |-> PrunerPoints(n, critical),
             settings |-> [overlap_mode |-> m.mode, k_required |-> m.k]] :
               n \in {MaxPoints}, critical \in SUBSET (0..(MaxPoints - 1)),
               covers \in UNION {[1..nc -> SUBSET (0..(MaxPoints - 1))] :
                                   nc \in 0..MaxCands},
               m \in {c \in ModeConfigs : c.pct = 100}} :
        (\E p \in DOMAIN i.points : i.points[p].is_critical) =>
            i.settings.overlap_mode = "critical_only"}

InitCalls ==
    /\ g_in \in SamplerInputs \cup PrunerInputs
    /\ g_out = <<>>
    /\ pc = "call"
    /\ params = None
    /\ r_eff = None
    /\ points = <<>>
    /\ candidates = <<>>
    /\ obstacle_grid = NoGrid
    /\ warnings = <<>>
    /\ selected_indices = <<>>
    /\ solver_status = ""
    /\ success = FALSE
    /\ solve_calls = <<>>
    /\ ran = {}
    /\ pruned = <<>>
    /\ refined_yaw = <<>>
    /\ result = None
    /\ run = 1
    /\ first_result = None
    /\ solver_tape = <<>>

CallSampler ==
    /\ pc = "call"
    /\ g_in.fn = "sample_points_in_polygon"
    /\ g_out' = sample_points_in_polygon(g_in.polygon, g_in.spacing_m, g_in.seed,
                                         g_in.obstacles)
    /\ pc' = "returned"
    /\ UNCHANGED <<params, r_eff, points, candidates, obstacle_grid, warnings,
                   selected_indices, solver_status, success, solve_calls, ran,
                   pruned, refined_yaw, result, run, first_result, solver_tape,
                   g_in>>

\* g_out collects the set of indices each call returns
CallPruner ==
    /\ pc = "call"
    /\ g_in.fn = "prune_redundant_sensors"
    /\ \E visit \in Orderings(Range(g_in.selected_indices)) :
          g_out' = <<prune_redundant_sensors(visit, g_in.candidates, g_in.points,
                                             g_in.settings)>>
    /\ pc' = "once"
    /\ UNCHANGED <<params, r_eff, points, candidates, obstacle_grid, warnings,
                   selected_indices, solver_status, success, solve_calls, ran,
                   pruned, refined_yaw, result, run, first_result, solver_tape,
                   g_in>>

CallPrunerAgain ==
    /\ pc = "once"
    /\ \E visit \in Orderings(g_out[1]) :
          g_out' = Append(g_out,
                          prune_redundant_sensors(visit, g_in.candidates,
                                                  g_in.points, g_in.settings))
    /\ pc' = "twice"
    /\ UNCHANGED <<params, r_eff, points, candidates, obstacle_grid, warnings,
                   selected_indices, solver_status, success, solve_calls, ran,
                   pruned, refined_yaw, result, run, first_result, solver_tape,
                   g_in>>

NextCalls == CallSampler \/ CallPruner \/ CallPrunerAgain

SpecCalls == InitCalls /\ [][NextCalls]_vars

\* C4: the pruner applied to its own output removes nothing, whatever order
\* either pass visits the candidates in.
C4_PrunerIdempotent == pc = "twice" => g_out[2] = g_out[1]

\* the first pass removed a sensor and kept another
C4_Witness ==
    /\ pc = "twice"
    /\ g_out[1] # {}
    /\ g_out[1] # Range(g_in.selected_indices)

\* C8: every sample point returned lies inside the ROI polygon and inside no
\* valid obstacle polygon.
C8_SamplesInsideRoiOutsideObstacles ==
    pc = "returned" =>
       \A i \in DOMAIN g_out :
          /\ PolyContains(g_in.polygon, Pt(g_out[i].x, g_out[i].z))
          /\ \A o \in DOMAIN g_in.obstacles :
                (Len(g_in.obstacles[o]) >= 3 /\ IsValid(g_in.obstacles[o])) =>
                   ~PolyContains(g_in.obstacles[o], Pt(g_out[i].x, g_out[i].z))

\* points were returned, and the jitter moved a grid position lying in no
\* obstacle into a valid obstacle
C8_Witness ==
    /\ pc = "returned"
    /\ g_out # <<>>
    /\ LET cells == GridCells(g_in.polygon, g_in.spacing_m)
           obs == ValidObstacles(g_in.obstacles)
       IN \E c \in DOMAIN cells :
             /\ SampleAccepted(g_in.polygon, obs, cells[c])
             /\ PolyContains(g_in.polygon,
                             JitteredCell(cells, c, g_in.spacing_m, g_in.seed))
             /\ ~SampleAccepted(g_in.polygon, obs,
                                JitteredCell(cells, c, g_in.spacing_m, g_in.seed))


(***************************************************************************)
(* Stand-alone calls of compute_effective_radius, smallest_angle_diff and   *)
(* check_los_blocked.                                                      *)
(***************************************************************************)
RadiusInputs ==
    {[fn |-> "compute_effective_radius", model |-> model, mount_height |-> h] :
        model \in [hfov_deg : {90, 180, 360}, vfov_deg : {60, 90, 120},
                   range_m : 1..MaxLength, dome_mode : BOOLEAN]
                  \cup {LidarModelOnly(v, r) : v \in {60, 90, 120}, r \in 1..MaxLength},
        h \in 1..MaxLength}

AngleInputs ==
    {[fn |-> "smallest_angle_diff", a |-> a, b |-> b] :
        a \in {<<n, 1>> : n \in (-MaxAngle)..MaxAngle}
              \cup {<<4 * n + 1, 4>> : n \in (-MaxAngle)..MaxAngle},
        b \in {Fl(45 * k - 360) : k \in 0..16}
              \cup {Fl(-350), Fl(-10), Fl(7), Fl(10), Fl(350)}}

\* a 25 x 25 grid of unit cells over (0,0)-(24,24), the cells in occupied set
LosGrid(occupied) ==
    [shape |-> <<25, 25>>, cells |-> occupied,
     bounds |-> [min_x |-> 0, max_x |-> 24, min_z |-> 0, max_z |-> 24]]

LosPoints ==
    {Pt(0, 22), Pt(24, 0), Pt(0, 0), Pt(24, 24), Pt(3, 5), Pt(16, 8),
     Pt(2, 23), Pt(21, 4)}

\* <<row, col>> of the one occupied cell
LosCells ==
    {<<8, 15>>, <<14, 7>>, <<14, 8>>, <<0, 0>>, <<11, 12>>, <<12, 12>>,
     <<4, 4>>, <<6, 12>>}

LosInputs ==
    {[fn |-> "check_los_blocked", a |-> a, b |-> b, obstacle_grid |-> grid,
      cell_size |-> 1] :
        a \in LosPoints, b \in LosPoints,
        grid \in {NoGrid, LosGrid({})} \cup {LosGrid({rc}) : rc \in LosCells}}

InitNumeric ==
    /\ g_in \in RadiusInputs \cup AngleInputs \cup LosInputs
    /\ g_out = <<>>
    /\ pc = "call"
    /\ params = None
    /\ r_eff = None
    /\ points = <<>>
    /\ candidates = <<>>
    /\ obstacle_grid = NoGrid
    /\ warnings = <<>>
    /\ selected_indices = <<>>
    /\ solver_status = ""
    /\ success = FALSE
    /\ solve_calls = <<>>
    /\ ran = {}
    /\ pruned = <<>>
    /\ refined_yaw = <<>>
    /\ result = None
    /\ run = 1
    /\ first_result = None
    /\ solver_tape = <<>>

CallRadius ==
    /\ pc = "call"
    /\ g_in.fn = "compute_effective_radius"
    /\ g_out' = compute_effective_radius(g_in.model, g_in.mount_height)
    /\ pc' = "radius"
    /\ UNCHANGED <<params, r_eff, points, candidates, obstacle_grid, warnings,
                   selected_indices, solver_status, success, solve_calls, ran,
                   pruned, refined_yaw, result, run, first_result, solver_tape,
                   g_in>>

\* the four calls the properties of smallest_angle_diff compare
CallAngleDiff ==
    /\ pc = "call"
    /\ g_in.fn = "smallest_angle_diff"
    /\ g_out' = [ab |-> smallest_angle_diff(g_in.a, g_in.b),
                 ba |-> smallest_angle_diff(g_in.b, g_in.a),
                 a360 |-> smallest_angle_diff(FlAdd(g_in.a, Fl(360)), g_in.b),
                 b360 |-> smallest_angle_diff(g_in.a, FlAdd(g_in.b, Fl(360)))]
    /\ pc' = "angle"
    /\ UNCHANGED <<params, r_eff, points, candidates, obstacle_grid, warnings,
                   selected_indices, solver_status, success, solve_calls, ran,
                   pruned, refined_yaw, result, run, first_result, solver_tape,
                   g_in>>

\* the query from a to b and the query from b to a
CallLos ==
    /\ pc = "call"
    /\ g_in.fn = "check_los_blocked"
    /\ g_out' = [ab |-> check_los_blocked(g_in.a.x, g_in.a.z, g_in.b.x, g_in.b.z,
                                          g_in.obstacle_grid, g_in.cell_size),
                 ba |-> check_los_blocked(g_in.b.x, g_in.b.z, g_in.a.x, g_in.a.z,
                                          g_in.obstacle_grid, g_in.cell_size)]
    /\ pc' = "los"
    /\ UNCHANGED <<params, r_eff, points, candidates, obstacle_grid, warnings,
                   selected_indices, solver_status, success, solve_calls, ran,
                   pruned, refined_yaw, result, run, first_result, solver_tape,
                   g_in>>

NextNumeric == CallRadius \/ CallAngleDiff \/ CallLos

SpecNumeric == InitNumeric /\ [][NextNumeric]_vars

RatEq(a, b) == a[1] * b[2] = b[1] * a[2]

\* the squares of range_m and of mount_height * tan(vfov_deg / 2)
RangeSq == <<g_in.model.range_m * g_in.model.range_m, 1>>

VfovRadiusSq ==
    <<g_in.mount_height * g_in.mount_height * TanSqHalf(g_in.model.vfov_deg)[1],
      TanSqHalf(g_in.model.vfov_deg)[2]>>

\* g_out is the square of min(range_m, mount_height * tan(vfov_deg / 2))
IsMinOfRangeAndVfov ==
    /\ RatLeq(g_out, RangeSq)
    /\ RatLeq(g_out, VfovRadiusSq)
    /\ RatEq(g_out, RangeSq) \/ RatEq(g_out, VfovRadiusSq)

C13_DefaultModelRadius ==
    (pc = "radius"
       /\ g_in.model = LidarModelOnly(g_in.model.vfov_deg, g_in.model.range_m)) =>
       /\ IsMinOfRangeAndVfov
       /\ (~RatLeq(VfovRadiusSq, RangeSq)) => RatEq(g_out, RangeSq)

FlEq(a, b) == a[1] * b[2] = b[1] * a[2]

InHalfTurn(a) == 0 <= a[1] /\ a[1] <= 180 * a[2]

\* a and b differ by at most 2^(10 - FloatBits)
FlClose(a, b) ==
    Abs(a[1] * b[2] - b[1] * a[2]) * FlHigh <= 1024 * a[2] * b[2]

\* C14 as stated: smallest_angle_diff(a, b) lies in [0, 180], equals
\* smallest_angle_diff(b, a), and does not change when 360 is added to a or
\* to b, for all angles, negative ones included.
C14_AngleDiffProperties ==
    pc = "angle" =>
       /\ InHalfTurn(g_out.ab)
       /\ FlEq(g_out.ab, g_out.ba)
       /\ FlEq(g_out.a360, g_out.ab)
       /\ FlEq(g_out.b360, g_out.ab)

\* C14 amended: smallest_angle_diff(a, b) lies in [0, 180] for all angles;
\* it equals smallest_angle_diff(b, a) and does not change when 360 is added
\* to a or to b when a and b are whole numbers of degrees, and for other
\* angles up to the rounding of the float operations, here 2^(10 - FloatBits).
C14_AngleDiffUpToRounding ==
    pc = "angle" =>
       /\ InHalfTurn(g_out.ab)
       /\ (g_in.a[2] = 1 /\ g_in.b[2] = 1) =>
             /\ FlEq(g_out.ab, g_out.ba)
             /\ FlEq(g_out.a360, g_out.ab)
             /\ FlEq(g_out.b360, g_out.ab)
       /\ FlClose(g_out.ab, g_out.ba)
       /\ FlClose(g_out.a360, g_out.ab)
       /\ FlClose(g_out.b360, g_out.ab)

\* a negative angle more than half a turn away from the other, both whole
\* numbers of degrees
C14_Witness ==
    /\ pc = "angle"
    /\ g_in.a[2] = 1
    /\ g_in.a[1] < 0
    /\ g_in.b[1] - g_in.a[1] > 180
    /\ g_out.ab[1] > 0

\* C15: the line-of-sight query gives the same answer from a to b and from b
\* to a, for any two endpoints and any occupancy grid.
C15_LosSymmetric == pc = "los" => g_out.ab = g_out.ba

\* removing c from the pruned set leaves every constraint of the solve met
Redundant(c) ==
    ModelSatisfied(Range(pruned) \ {c}, candidates, points, params.settings)

\* C17: the pruner removes a sensor whenever the solver's constraints, which
\* skip the samples no candidate covers, still hold without it; so after a
\* first solve that succeeded no sensor it leaves is redundant under those
\* constraints, uncoverable samples or not.
C17_PrunerRemovesRedundant ==
    ("pruner" \in ran /\ Len(solve_calls) = 1) =>
       \A c \in Range(pruned) : ~Redundant(c)

\* yaw of the first generated candidate at the position key that covers the
\* most samples, selected or not
BestVariantYaw(key) ==
    LET at == {i \in DOMAIN candidates : PosKey(candidates[i]) = key}
        most == SetMax({Len(candidates[i].covered_points) : i \in at})
        first == SetMin({i \in at : Len(candidates[i].covered_points) = most})
    IN candidates[first].yaw_deg

\* C18: the yaw refiner gives every selected entry the yaw of the variant
\* covering the most samples among all the candidates generated at its
\* position, selected or not, the first such variant on a tie; for a dome or
\* hfov >= 360 it changes no yaw.
C18_RefinedYawBestOfAllVariants ==
    Succeeded =>
       IF params.model.hfov_deg >= 360 \/ params.model.dome_mode
       THEN refined_yaw = <<>>
       ELSE \A idx \in Range(selected_indices) :
               /\ idx \in DOMAIN refined_yaw
               /\ refined_yaw[idx] =
                     BestVariantYaw(PosKey(CandAt(candidates, idx)))

\* the places in selected_indices holding the first index of their position
FirstOfKey ==
    {i \in DOMAIN selected_indices :
        \A j \in 1..(i - 1) :
           PosKey(CandAt(candidates, selected_indices[j]))
              # PosKey(CandAt(candidates, selected_indices[i]))}

\* the entry the result holds for the candidate idx
EntryOf(idx) ==
    LET c == CandAt(candidates, idx) IN
    [x |-> c.x, z |-> c.z,
     yaw |-> IF idx \in DOMAIN refined_yaw THEN refined_yaw[idx] ELSE c.yaw_deg]

\* C19: in a successful result no two entries of selected_positions have the
\* same position, the entries are those of the first selected index of each
\* position, in the order of selected_indices, and num_sensors is the number
\* of entries.
C19_PositionsDeduplicated ==
    Succeeded =>
       LET sp == result.selected_positions
           firsts == Ascending(FirstOfKey)
       IN /\ \A a \in DOMAIN sp : \A b \in DOMAIN sp :
                (sp[a].x = sp[b].x /\ sp[a].z = sp[b].z) => a = b
          /\ Len(sp) = Len(firsts)
          /\ \A n \in DOMAIN sp : sp[n] = EntryOf(selected_indices[firsts[n]])
          /\ result.num_sensors = Len(sp)

\* a successful result whose selection held two variants at one position
C19_Witness ==
    /\ Succeeded
    /\ Len(selected_indices) > Len(result.selected_positions)
    /\ result.selected_positions # <<>>

\* C20: the relaxed formulation (everywhere, k_required = 1) is met by
\* selecting every candidate, whatever the candidates and their coverage
\* sets, so the retry never ends with the status INFEASIBLE.
C20_RelaxedModelSatisfiable ==
    /\ pc \in {"solve", "solved"} =>
          ModelSatisfied(CandIdx(candidates), candidates, points,
                         RelaxedSettings(params.settings))
    /\ Len(solve_calls) = 2 => solver_tape[2].status # "INFEASIBLE"

\* the first solve was proved infeasible, a sample is covered by no
\* candidate, and the retry failed
C20_Witness ==
    /\ Done
    /\ Len(solve_calls) = 2
    /\ solver_tape[1].status = "INFEASIBLE"
    /\ ~solver_tape[2].ok
    /\ \E i \in DOMAIN points : ~Coverable(points[i])

\* the first solve failed and the relaxed retry gave a selection
RetrySucceeded ==
    Succeeded /\ Len(solve_calls) = 2 /\ ~solver_tape[1].ok /\ solver_tape[2].ok

\* the samples the final selection covers at least k times
CoveredTimes(k) ==
    {i \in DOMAIN points :
        CoverageCount(Range(selected_indices), candidates, points[i].idx) >= k}

\* C21: when the first solve fails and the relaxed retry succeeds, the result
\* has success = true, its warnings begin with the relaxation warning, any
\* truncation warning coming after it, it reports the requested overlap_mode
\* and k_required, the pruner removed sensors only where the requested
\* constraints still held, and k_coverage_pct counts the samples covered the
\* requested k_required times.
C21_RetryKeepsRequestedSettings ==
    RetrySucceeded =>
       /\ result.success
       /\ result.warnings # <<>>
       /\ result.warnings[1][1] = "Initial solve failed, relaxing to k=1"
       /\ \A i \in DOMAIN result.warnings :
             result.warnings[i][1] = "Reduced" => i > 1
       /\ result.overlap_mode = params.settings.overlap_mode
       /\ result.k_required = params.settings.k_required
       /\ \/ Range(pruned) = Range(solver_tape[2].selected)
          \/ PruneValid(Range(pruned), candidates, points, params.settings)
       /\ result.k_coverage_pct =
             <<Cardinality(CoveredTimes(params.settings.k_required)),
               Len(points)>>

\* a retry that succeeded for a request of two covers, the selection cut to
\* max_sensors, some sample covered once only
C21_Witness ==
    /\ RetrySucceeded
    /\ params.settings.k_required = 2
    /\ \E i \in DOMAIN result.warnings : result.warnings[i][1] = "Reduced"
    /\ CoveredTimes(2) # CoveredTimes(1)

(***************************************************************************)
(* prune_redundant_sensors called alone, its iteration recorded            *)
(***************************************************************************)
InitTraced ==
    /\ InitCalls
    /\ g_in.fn = "prune_redundant_sensors"

\* g_out records the order "for idx in list(selected)" took and the list
\* "return list(selected)" built; each is the set in some order
CallPrunerTraced ==
    /\ pc = "call"
    /\ g_in.fn = "prune_redundant_sensors"
    /\ \E visit \in Orderings(Range(g_in.selected_indices)) :
          \E out \in Orderings(prune_redundant_sensors(visit, g_in.candidates,
                                                       g_in.points,
                                                       g_in.settings)) :
             g_out' = [visited |-> visit, returned |-> out]
    /\ pc' = "traced"
    /\ UNCHANGED <<params, r_eff, points, candidates, obstacle_grid, warnings,
                   selected_indices, solver_status, success, solve_calls, ran,
                   pruned, refined_yaw, result, run, first_result, solver_tape,
                   g_in>>

NextTraced == CallPrunerTraced

SpecTraced == InitTraced /\ [][NextTraced]_vars

IsAscending(s) == \A i \in DOMAIN s : \A j \in DOMAIN s : i < j => s[i] < s[j]

\* C16: the pruner visits the selected candidates in ascending index order,
\* each exactly once, and the list it returns is in ascending index order.
C16_PrunerAscending ==
    pc = "traced" =>
       /\ Range(g_out.visited) = Range(g_in.selected_indices)
       /\ Len(g_out.visited) = Cardinality(Range(g_in.selected_indices))
       /\ IsAscending(g_out.visited)
       /\ IsAscending(g_out.returned)

====
